---- MODULE Spec2Model ----
(***************************************************************************)
(* Vendor / category administration (stilnar92/travel).                    *)
(*                                                                         *)
(* The store is the relational database of README.md: the tables           *)
(* categories, vendors and vendor_categories (composite primary key, both  *)
(* halves foreign keys with ON DELETE CASCADE).  The repository functions  *)
(* of shared/adapters/supabase/repositories are sequences of awaited store *)
(* calls; each awaited call is one atomic step of the calling request, and *)
(* other requests may run between two steps.                               *)
(*                                                                         *)
(* Strings are sequences of one-character strings; created_at is left out  *)
(* (no function of the repository reads it).                               *)
(***************************************************************************)
EXTENDS Integers, Sequences, FiniteSets, TLC

VARIABLES
  categories,         \* table categories: set of rows [id, name]
  vendors,            \* table vendors: set of rows [id, name, city]
  vendor_categories,  \* junction table: set of rows [vendor_id, category_id]
  issued,             \* ids the store has generated so far (never reused)
  pc,                 \* per request: the awaited store call it is at
  call,               \* per request: the function called, its arguments, its locals
  ret,                \* per request: what the function returned or threw
  action,             \* per request: the server action invoked, its form, its result
  http,               \* the page request in flight: who asks, for what, the answer
  ui                  \* the vendor filters of the list page and their debounce hook

vars == <<categories, vendors, vendor_categories, issued, pc, call, ret, action, http,
          ui>>

store == <<categories, vendors, vendor_categories>>

(***************************************************************************)
(* Bounds                                                                  *)
(***************************************************************************)
MaxIds == 2          \* longest categoryIds sequence passed to create/update
MaxFilterLen == 2    \* longest city filter string
MaxCityLen == 2      \* longest city drawn for the listing specification
MaxFormIds == 1      \* most categoryIds entries of a submitted vendor form
MaxHops == 2         \* most redirects a browser follows for one page request
MaxTicks == 6        \* the clock of the filter panel stops after this many ticks
MaxEvents == 3       \* most calls of the debounced callback, of cancel and of flush

delay == 300         \* useDebouncedCallback(callback, 300), in milliseconds

Procs == {"r1", "r2"}             \* concurrent requests
MainProc == "r1"                  \* the request of the one-at-a-time specification
VendorIdPool == {"v1", "v2"}      \* ids the store generates for new vendors
CatA == [id |-> "cA", name |-> <<"A">>]
CatB == [id |-> "cB", name |-> <<"B">>]
SeedCategories == {CatA, CatB}    \* the seeded categories table
CategoryIds == {c.id : c \in SeedCategories}
VendorNames == {<<"R">>, <<"A", "l">>}
Cities == {<<"P", "a">>, <<"p">>}
Alphabet == {"a", "A", "b", "_", "%"}
NewNames == {<<"A", "l">>}        \* names updateVendor is called with
NewCities == {<<"p">>}            \* cities updateVendor is called with
FilterCities == {<<"p">>}         \* city filters of the one-at-a-time specification
CategoryIdPool == {"cC"}          \* ids the store generates for new categories

NameMax == 100                    \* vendorSchema: name .max(100)
CityMax == 100                    \* vendorSchema: city .max(100)
CategoryNameMax == 100            \* categorySchema: name .max(100)

(***************************************************************************)
(* Helpers on sequences and strings                                        *)
(***************************************************************************)
Range(s) == {s[i] : i \in DOMAIN s}

SeqsUpTo(S, n) == UNION {[1..k -> S] : k \in 0..n}

\* every arrangement of the finite set S as a sequence without repetition
Perms(S) == {f \in [1..Cardinality(S) -> S] : \A i, j \in DOMAIN f : f[i] = f[j] => i = j}

\* an optional argument: <<>> when the key is not supplied, <<x>> when it is
Option(S) == {<<>>} \cup {<<x>> : x \in S}

CharCode(c) ==
  CASE c = "%" -> 37 [] c = "A" -> 65 [] c = "B" -> 66 [] c = "P" -> 80
    [] c = "R" -> 82 [] c = "_" -> 95 [] c = "a" -> 97 [] c = "b" -> 98
    [] c = "l" -> 108 [] c = "p" -> 112

Lower(c) ==
  CASE c = "A" -> "a" [] c = "B" -> "b" [] c = "P" -> "p" [] c = "R" -> "r"
    [] OTHER -> c

\* ORDER BY name: s sorts at or before t
RECURSIVE NameLeq(_, _)
NameLeq(s, t) ==
  IF s = <<>> THEN TRUE
  ELSE IF t = <<>> THEN FALSE
  ELSE IF CharCode(Head(s)) # CharCode(Head(t)) THEN CharCode(Head(s)) < CharCode(Head(t))
  ELSE NameLeq(Tail(s), Tail(t))

\* SQL LIKE on lower-cased text: % matches any run of characters, _ any one character
RECURSIVE LikeMatch(_, _)
LikeMatch(pat, s) ==
  IF pat = <<>> THEN s = <<>>
  ELSE IF Head(pat) = "%"
    THEN LikeMatch(Tail(pat), s) \/ (s # <<>> /\ LikeMatch(pat, Tail(s)))
  ELSE IF Head(pat) = "_"
    THEN s # <<>> /\ LikeMatch(Tail(pat), Tail(s))
  ELSE s # <<>> /\ Lower(Head(pat)) = Lower(Head(s)) /\ LikeMatch(Tail(pat), Tail(s))

\* query.ilike("city", `%${filters.city}%`)
IlikeCity(row, city) == LikeMatch(<<"%">> \o city \o <<"%">>, row.city)

(***************************************************************************)
(* Store calls of the repositories, as functions of the tables             *)
(***************************************************************************)
\* from("vendor_categories").select("vendor_id").eq("category_id", categoryId)
VendorIdsWithCategory(vc, categoryId) ==
  {r.vendor_id : r \in {x \in vc : x.category_id = categoryId}}

\* mutant: the embedding is not restricted to the vendor's own junction rows
LinkedCategories_All(cats, vc, vendorId) == cats

\* the embedded vendor_categories ( categories (*) ) of one vendor row: the
\* category rows its junction rows point at
LinkedCategories(cats, vc, vendorId) ==
  {c \in cats : [vendor_id |-> vendorId, category_id |-> c.id] \in vc}

\* { ...vendor, categories: vendor.vendor_categories.map(vc => vc.categories) }:
\* the embedding carries no order clause, so any arrangement may come back
Hydrated(row, cats, vc) ==
  {[id |-> row.id, name |-> row.name, city |-> row.city, categories |-> cs] :
     cs \in Perms(LinkedCategories(cats, vc, row.id))}

\* mutant: the main query drops its .in("id", vendorIds) filter
SelectVendors_CityOnly(vs, ids, city) ==
  {v \in vs : (city # <<>> /\ city[1] # <<>>) => IlikeCity(v, city[1])}

\* the rows of the main vendor query: .in("id", ids) when the category filter
\* was resolved (ids = <<set>>), .ilike on city when filters.city is non-empty
SelectVendors(vs, ids, city) ==
  {v \in vs : /\ (ids # <<>> => v.id \in ids[1])
              /\ ((city # <<>> /\ city[1] # <<>>) => IlikeCity(v, city[1]))}

\* mutant: the select carries no order clause
OrderedByName_Any(rows) == Perms(rows)

\* .order("name"): the arrangements of rows that ascend by name
OrderedByName(rows) ==
  {s \in Perms(rows) : \A i, j \in DOMAIN s : i < j => NameLeq(s[i].name, s[j].name)}

\* every sequence getVendors' main query and mapping can return
VendorListings(vs, cats, vc, ids, city) ==
  UNION {{h \in [DOMAIN s -> UNION {Hydrated(s[i], cats, vc) : i \in DOMAIN s}] :
            \A i \in DOMAIN s : h[i] \in Hydrated(s[i], cats, vc)} :
         s \in OrderedByName(SelectVendors(vs, ids, city))}

\* from("categories").select("*").order("name"): every sequence it can return
CategoryListings(cats) == OrderedByName(cats)

\* from("vendors").select(...).eq("id", id).single()
VendorRowsById(vs, id) == {v \in vs : v.id = id}

\* gen_random_uuid(): ids are opaque, the pool is handed out in a fixed order
NewVendorId(used) == IF "v1" \notin used THEN "v1" ELSE "v2"

\* from("vendors").insert(vendorData)
InsertVendor(vs, id, name, city) == vs \cup {[id |-> id, name |-> name, city |-> city]}

\* categoryIds.map((categoryId) => ({ vendor_id, category_id: categoryId }))
JunctionRows(vendorId, categoryIds) ==
  [i \in DOMAIN categoryIds |-> [vendor_id |-> vendorId, category_id |-> categoryIds[i]]]

\* what a bulk insert into vendor_categories is refused with: the composite
\* primary key (23505), the two foreign keys (23503), or "none"
InsertJunctionError(vs, cats, vc, rows) ==
  IF \/ \E i, j \in DOMAIN rows : i # j /\ rows[i] = rows[j]
     \/ \E i \in DOMAIN rows : rows[i] \in vc
    THEN "23505"
  ELSE IF \E i \in DOMAIN rows :
            \/ rows[i].vendor_id \notin {v.id : v \in vs}
            \/ rows[i].category_id \notin {c.id : c \in cats}
    THEN "23503"
  ELSE "none"

\* mutant: only the first of the rows is written
InsertJunction_FirstOnly(vc, rows) == vc \cup {rows[1]}

\* from("vendor_categories").insert(rows), when it is accepted
InsertJunction(vc, rows) == vc \cup Range(rows)

\* mutant: the update leaves the row as it was
UpdateVendorRow_Skip(vs, id, name, city) == vs

\* from("vendors").update(vendorData).eq("id", id)
UpdateVendorRow(vs, id, name, city) ==
  {IF v.id = id
     THEN [id |-> v.id,
           name |-> IF name # <<>> THEN name[1] ELSE v.name,
           city |-> IF city # <<>> THEN city[1] ELSE v.city]
     ELSE v : v \in vs}

\* mutant: the delete step removes nothing, so an update merges
DeleteJunctionOfVendor_Keep(vc, id) == vc

\* mutant: the delete lacks its .eq("vendor_id", id) filter
DeleteJunctionOfVendor_All(vc, id) == {}

\* from("vendor_categories").delete().eq("vendor_id", id)
DeleteJunctionOfVendor(vc, id) == {r \in vc : r.vendor_id # id}

\* mutant: the vendor row is not deleted
DeleteVendorRow_Keep(vs, id) == vs

\* mutant: the delete lacks its .eq("id", id) filter
DeleteVendorRow_All(vs, id) == {}

\* from("vendors").delete().eq("id", id)
DeleteVendorRow(vs, id) == {v \in vs : v.id # id}

\* vendor_id REFERENCES vendors(id) ON DELETE CASCADE
CascadeVendors(vc, vs) == {r \in vc : r.vendor_id \in {v.id : v \in vs}}

\* gen_random_uuid() of categories.id
NewCategoryId(used) == CHOOSE id \in CategoryIdPool : id \notin used

\* from("categories").insert(category): refused by name TEXT NOT NULL UNIQUE
InsertCategoryError(cats, name) ==
  IF \E c \in cats : c.name = name THEN "23505" ELSE "none"

InsertCategory(cats, id, name) == cats \cup {[id |-> id, name |-> name]}

CategoryRowsById(cats, id) == {c \in cats : c.id = id}

\* from("categories").update(category).eq("id", id): refused when another row
\* holds the name
UpdateCategoryError(cats, id, name) ==
  IF /\ CategoryRowsById(cats, id) # {}
     /\ \E c \in cats : c.id # id /\ c.name = name
    THEN "23505"
  ELSE "none"

UpdateCategoryRow(cats, id, name) ==
  {IF c.id = id THEN [id |-> c.id, name |-> name] ELSE c : c \in cats}

\* from("categories").delete().eq("id", id)
DeleteCategoryRow(cats, id) == {c \in cats : c.id # id}

\* mutant: the foreign key does not cascade
CascadeCategories_None(vc, cats) == vc

\* category_id REFERENCES categories(id) ON DELETE CASCADE
CascadeCategories(vc, cats) == {r \in vc : r.category_id \in {c.id : c \in cats}}

(***************************************************************************)
(* Requests                                                                *)
(***************************************************************************)
NoRet == [status |-> "none", error |-> "none", at |-> "", value |-> <<>>]

\* the function resolved with value v (a sequence of hydrated vendors)
Returned(v) == [status |-> "ok", error |-> "none", at |-> "", value |-> v]

\* if (error) throw error: the store's error code and the call that raised it
Threw(code, at) == [status |-> "threw", error |-> code, at |-> at, value |-> <<>>]

\* getVendorById (vendors.ts 82-98) on the tables: .single() raises PGRST116
\* unless exactly one row matches
GetVendorByIdResults(vs, cats, vc, id, at) ==
  IF Cardinality(VendorRowsById(vs, id)) # 1
    THEN {Threw("PGRST116", at)}
    ELSE UNION {{Returned(<<v>>) : v \in Hydrated(row, cats, vc)} :
                row \in VendorRowsById(vs, id)}

\* ok(data) and err(error, code) of action-result.ts
ok(data) == [success |-> TRUE, data |-> data, error |-> "", code |-> ""]
err(error, code) == [success |-> FALSE, data |-> <<>>, error |-> error, code |-> code]

NoResult == [success |-> FALSE, data |-> <<>>, error |-> "", code |-> "none"]

NoAction ==
  [op |-> "none", id |-> "", name |-> <<>>, city |-> <<>>, categoryIds |-> <<>>,
   stage |-> "none", result |-> NoResult, pre |-> <<{}, {}, {}>>]

\* a server action as it starts: its arguments and form fields, the tables as
\* they are
NewAction(op, id, name, city, categoryIds) ==
  [op |-> op, id |-> id, name |-> name, city |-> city, categoryIds |-> categoryIds,
   stage |-> "running", result |-> NoResult, pre |-> store]

\* the action has returned result r to its caller
Settled(a, r) == [a EXCEPT !.stage = "settled", !.result = r]

NoRequest ==
  [user |-> FALSE, asked |-> "", pathname |-> "", hops |-> 0, stage |-> "none",
   answer |-> "none", location |-> ""]

\* the filter panel as it mounts on a URL without filters: no timer was
\* ever set (timeoutRef.current is null, written 0), nothing has happened
MountedUi ==
  [now |-> 0, timeoutRef |-> 0, timers |-> {}, nextId |-> 1,
   localCity |-> "", urlCity |-> "", categoryId |-> "", log |-> <<>>]

NoCall ==
  [op |-> "none", id |-> "", name |-> <<>>, city |-> <<>>, categoryIds |-> <<>>,
   fcity |-> <<>>, fcategoryId |-> <<>>, vendorId |-> "", ids |-> <<>>,
   pre |-> <<{}, {}, {}>>]

\* a call as it starts: its arguments, its locals unset, the tables as they are
NewCall(op, id, name, city, categoryIds, fcity, fcategoryId) ==
  [op |-> op, id |-> id, name |-> name, city |-> city, categoryIds |-> categoryIds,
   fcity |-> fcity, fcategoryId |-> fcategoryId, vendorId |-> "", ids |-> <<>>,
   pre |-> store]

\* a repository function is entered: no store call has been made yet
Enter(p, c, first) ==
  /\ pc[p] = "idle"
  /\ call' = [call EXCEPT ![p] = c]
  /\ pc' = [pc EXCEPT ![p] = first]
  /\ ret' = [ret EXCEPT ![p] = NoRet]
  /\ UNCHANGED <<categories, vendors, vendor_categories, issued>>

\* a repository function called directly, outside any server action
Begin(p, c, first) ==
  /\ Enter(p, c, first)
  /\ UNCHANGED <<action, http, ui>>

Finish(p, r) ==
  /\ pc' = [pc EXCEPT ![p] = "done"]
  /\ ret' = [ret EXCEPT ![p] = r]
  /\ UNCHANGED <<action, http, ui>>

Goto(p, label) ==
  /\ pc' = [pc EXCEPT ![p] = label]
  /\ UNCHANGED <<ret, action, http, ui>>

\* the caller has taken the result; the request is over
Return(p) ==
  /\ pc[p] = "done"
  /\ pc' = [pc EXCEPT ![p] = "idle"]
  /\ call' = [call EXCEPT ![p] = NoCall]
  /\ ret' = [ret EXCEPT ![p] = NoRet]
  /\ UNCHANGED <<categories, vendors, vendor_categories, issued, action, http, ui>>

\* a store call that fails leaves the tables as they were and the caller throws
StoreFault(p) ==
  /\ Finish(p, Threw("fault", pc[p]))
  /\ UNCHANGED <<categories, vendors, vendor_categories, issued, call>>

(*------------------------------ getVendors ------------------------------*)
CallGetVendors(p, cityFilters, categoryFilters) ==
  \E fcity \in Option(cityFilters),
     fcategoryId \in Option(categoryFilters) :
    Begin(p, NewCall("getVendors", "", <<>>, <<>>, <<>>, fcity, fcategoryId),
          IF fcategoryId # <<>> /\ fcategoryId[1] # "" THEN "gv_lookup" ELSE "gv_query")

\* mutant: the main query is issued even when the lookup found no vendor
ShortCircuit_Never(found) == FALSE

\* vendors.ts 43-45: if (vendorIds.length === 0) return []
ShortCircuit(found) == found = {}

\* vendors.ts 32-46: the junction lookup and the early return
GvLookup(p) ==
  /\ pc[p] = "gv_lookup"
  /\ \/ StoreFault(p)
     \/ LET found == VendorIdsWithCategory(vendor_categories, call[p].fcategoryId[1]) IN
        /\ UNCHANGED <<categories, vendors, vendor_categories, issued>>
        /\ IF ShortCircuit(found)
             THEN Finish(p, Returned(<<>>)) /\ UNCHANGED call
             ELSE /\ call' = [call EXCEPT ![p].ids = <<found>>]
                  /\ Goto(p, "gv_query")

\* vendors.ts 48-75: the main query and the mapping
GvQuery(p) ==
  /\ pc[p] = "gv_query"
  /\ \/ StoreFault(p)
     \/ /\ \E listing \in VendorListings(vendors, categories, vendor_categories,
                                         call[p].ids, call[p].fcity) :
             Finish(p, Returned(listing))
        /\ UNCHANGED <<categories, vendors, vendor_categories, issued, call>>

(*------------------------------ getCategories ---------------------------*)
CallGetCategories(p) ==
  Begin(p, NewCall("getCategories", "", <<>>, <<>>, <<>>, <<>>, <<>>), "gc_select")

\* categories.ts 9-15
GcSelect(p) ==
  /\ pc[p] = "gc_select"
  /\ \/ StoreFault(p)
     \/ /\ \E listing \in CategoryListings(categories) : Finish(p, Returned(listing))
        /\ UNCHANGED <<categories, vendors, vendor_categories, issued, call>>

(*----------------------------- getVendorById ----------------------------*)
\* vendors.ts 82-98, also the last step of createVendor and updateVendor
SelectById(p, id) ==
  \/ StoreFault(p)
  \/ /\ \E r \in GetVendorByIdResults(vendors, categories, vendor_categories, id, pc[p]) :
          Finish(p, r)
     /\ UNCHANGED <<categories, vendors, vendor_categories, issued, call>>

CallGetVendorById(p) ==
  \E id \in VendorIdPool :
    Begin(p, NewCall("getVendorById", id, <<>>, <<>>, <<>>, <<>>, <<>>), "gb_select")

GbSelect(p) ==
  /\ pc[p] = "gb_select"
  /\ SelectById(p, call[p].id)

(*------------------------------ createVendor ----------------------------*)
CallCreateVendor(p) ==
  \E name \in VendorNames, city \in Cities,
     categoryIds \in SeqsUpTo(CategoryIds, MaxIds) :
    /\ issued # VendorIdPool
    /\ Begin(p, NewCall("createVendor", "", <<name>>, <<city>>, <<categoryIds>>, <<>>, <<>>),
             "cv_insert")

\* vendors.ts 107-114: insert the vendor row
CvInsert(p) ==
  /\ pc[p] = "cv_insert"
  /\ \/ StoreFault(p)
     \/ LET id == NewVendorId(issued) IN
        /\ vendors' = InsertVendor(vendors, id, call[p].name[1], call[p].city[1])
        /\ issued' = issued \cup {id}
        /\ call' = [call EXCEPT ![p].vendorId = id]
        /\ Goto(p, IF Len(call[p].categoryIds[1]) > 0 THEN "cv_junction" ELSE "cv_get")
        /\ UNCHANGED <<categories, vendor_categories>>

\* mutant: the vendor row is taken back when the junction insert is refused
VendorsAfterRefusal_Rollback(vs, vendorId) == {v \in vs : v.id # vendorId}

\* vendors.ts 125: a refused junction insert is rethrown, the vendor row inserted
\* at 108-112 is not taken back
VendorsAfterRefusal(vs, vendorId) == vs

\* vendors.ts 117-126: bulk-insert the junction rows
CvJunction(p) ==
  /\ pc[p] = "cv_junction"
  /\ \/ StoreFault(p)
     \/ LET rows == JunctionRows(call[p].vendorId, call[p].categoryIds[1])
            refused == InsertJunctionError(vendors, categories, vendor_categories, rows)
        IN
        /\ UNCHANGED <<categories, issued, call>>
        /\ IF refused # "none"
             THEN /\ Finish(p, Threw(refused, pc[p]))
                  /\ vendors' = VendorsAfterRefusal(vendors, call[p].vendorId)
                  /\ UNCHANGED vendor_categories
             ELSE /\ vendor_categories' = InsertJunction(vendor_categories, rows)
                  /\ Goto(p, "cv_get")
                  /\ UNCHANGED vendors

\* vendors.ts 128
CvGet(p) ==
  /\ pc[p] = "cv_get"
  /\ SelectById(p, call[p].vendorId)

(*------------------------------ updateVendor ----------------------------*)
\* mutant: the associations are replaced whether or not categoryIds was supplied
AfterUpdate_Always(categoryIds) == "uv_delete"

\* vendors.ts 136-149: which awaited call comes first, and which follows the update
AfterUpdate(categoryIds) == IF categoryIds # <<>> THEN "uv_delete" ELSE "uv_get"

FirstOfUpdate(name, city, categoryIds) ==
  IF name # <<>> \/ city # <<>> THEN "uv_update" ELSE AfterUpdate(categoryIds)

CallUpdateVendor(p, vendorIds, names, cities, ids) ==
  \E id \in vendorIds, name \in Option(names), city \in Option(cities),
     categoryIds \in Option(ids) :
    Begin(p, NewCall("updateVendor", id, name, city, categoryIds, <<>>, <<>>),
          FirstOfUpdate(name, city, categoryIds))

\* the ids of a supplied categoryIds (none when the key is absent)
SuppliedIds(categoryIds) == IF categoryIds = <<>> THEN <<>> ELSE categoryIds[1]

\* vendors.ts 139-146: update the supplied columns
UvUpdate(p) ==
  /\ pc[p] = "uv_update"
  /\ \/ StoreFault(p)
     \/ /\ vendors' = UpdateVendorRow(vendors, call[p].id, call[p].name, call[p].city)
        /\ Goto(p, AfterUpdate(call[p].categoryIds))
        /\ UNCHANGED <<categories, vendor_categories, issued, call>>

\* vendors.ts 151-156: delete the existing associations
UvDelete(p) ==
  /\ pc[p] = "uv_delete"
  /\ \/ StoreFault(p)
     \/ /\ vendor_categories' = DeleteJunctionOfVendor(vendor_categories, call[p].id)
        /\ Goto(p, IF Len(SuppliedIds(call[p].categoryIds)) > 0 THEN "uv_insert" ELSE "uv_get")
        /\ UNCHANGED <<categories, vendors, issued, call>>

\* vendors.ts 159-168: create the new associations
UvInsert(p) ==
  /\ pc[p] = "uv_insert"
  /\ \/ StoreFault(p)
     \/ LET rows == JunctionRows(call[p].id, SuppliedIds(call[p].categoryIds))
            refused == InsertJunctionError(vendors, categories, vendor_categories, rows)
        IN
        /\ UNCHANGED <<categories, vendors, issued, call>>
        /\ IF refused # "none"
             THEN Finish(p, Threw(refused, pc[p])) /\ UNCHANGED vendor_categories
             ELSE /\ vendor_categories' = InsertJunction(vendor_categories, rows)
                  /\ Goto(p, "uv_get")

\* vendors.ts 171
UvGet(p) ==
  /\ pc[p] = "uv_get"
  /\ SelectById(p, call[p].id)

(*------------------------------ deleteVendor ----------------------------*)
CallDeleteVendor(p) ==
  \E id \in VendorIdPool :
    Begin(p, NewCall("deleteVendor", id, <<>>, <<>>, <<>>, <<>>, <<>>), "dv_junction")

\* vendors.ts 179-184: delete the category associations first
DvJunction(p) ==
  /\ pc[p] = "dv_junction"
  /\ \/ StoreFault(p)
     \/ /\ vendor_categories' = DeleteJunctionOfVendor(vendor_categories, call[p].id)
        /\ Goto(p, "dv_vendor")
        /\ UNCHANGED <<categories, vendors, issued, call>>

\* vendors.ts 187-189: delete the vendor row; the foreign key cascades
DvVendor(p) ==
  /\ pc[p] = "dv_vendor"
  /\ \/ StoreFault(p)
     \/ /\ vendors' = DeleteVendorRow(vendors, call[p].id)
        /\ vendor_categories' = CascadeVendors(vendor_categories, vendors')
        /\ Finish(p, Returned(<<>>))
        /\ UNCHANGED <<categories, issued, call>>

(*----------------------------- deleteCategory ---------------------------*)
CallDeleteCategory(p) ==
  \E id \in CategoryIds :
    Begin(p, NewCall("deleteCategory", id, <<>>, <<>>, <<>>, <<>>, <<>>), "dc_delete")

\* categories.ts 66-68: delete the category row; the foreign key cascades
DcDelete(p) ==
  /\ pc[p] = "dc_delete"
  /\ \/ StoreFault(p)
     \/ /\ categories' = DeleteCategoryRow(categories, call[p].id)
        /\ vendor_categories' = CascadeCategories(vendor_categories, categories')
        /\ Finish(p, Returned(<<>>))
        /\ UNCHANGED <<vendors, issued, call>>

(*----------------------------- createCategory ---------------------------*)
\* categories.ts 36-43: insert the row and read it back
CcInsert(p) ==
  /\ pc[p] = "cc_insert"
  /\ \/ StoreFault(p)
     \/ LET refused == InsertCategoryError(categories, call[p].name[1])
            id == NewCategoryId(issued)
        IN
        /\ UNCHANGED <<vendors, vendor_categories, call>>
        /\ IF refused # "none"
             THEN Finish(p, Threw(refused, pc[p])) /\ UNCHANGED <<categories, issued>>
             ELSE /\ categories' = InsertCategory(categories, id, call[p].name[1])
                  /\ issued' = issued \cup {id}
                  /\ Finish(p, Returned(<<[id |-> id, name |-> call[p].name[1]]>>))

(*----------------------------- updateCategory ---------------------------*)
\* categories.ts 51-59: update the row and read it back; .single() raises
\* PGRST116 when no row was updated
UcUpdate(p) ==
  /\ pc[p] = "uc_update"
  /\ \/ StoreFault(p)
     \/ LET refused == UpdateCategoryError(categories, call[p].id, call[p].name[1]) IN
        /\ UNCHANGED <<vendors, vendor_categories, issued, call>>
        /\ IF refused # "none"
             THEN Finish(p, Threw(refused, pc[p])) /\ UNCHANGED categories
             ELSE IF CategoryRowsById(categories, call[p].id) = {}
               THEN Finish(p, Threw("PGRST116", pc[p])) /\ UNCHANGED categories
               ELSE /\ categories' = UpdateCategoryRow(categories, call[p].id, call[p].name[1])
                    /\ Finish(p, Returned(<<[id |-> call[p].id, name |-> call[p].name[1]]>>))

(***************************************************************************)
(* Spec: one request at a time against the seeded store                    *)
(***************************************************************************)

Init ==
  /\ categories = SeedCategories
  /\ vendors = {}
  /\ vendor_categories = {}
  /\ issued = {}
  /\ pc = [p \in Procs |-> "idle"]
  /\ call = [p \in Procs |-> NoCall]
  /\ ret = [p \in Procs |-> NoRet]
  /\ action = [p \in Procs |-> NoAction]
  /\ http = NoRequest
  /\ ui = MountedUi

Step(p) ==
  \/ GvLookup(p) \/ GvQuery(p) \/ GbSelect(p) \/ GcSelect(p)
  \/ CvInsert(p) \/ CvJunction(p) \/ CvGet(p)
  \/ UvUpdate(p) \/ UvDelete(p) \/ UvInsert(p) \/ UvGet(p)
  \/ DvJunction(p) \/ DvVendor(p)
  \/ DcDelete(p)

Next ==
  \/ CallGetVendors(MainProc, FilterCities, CategoryIds)
  \/ CallGetVendorById(MainProc)
  \/ CallGetCategories(MainProc)
  \/ CallCreateVendor(MainProc)
  \/ CallUpdateVendor(MainProc, VendorIdPool, NewNames, NewCities,
                      SeqsUpTo(CategoryIds, MaxIds))
  \/ CallDeleteVendor(MainProc)
  \/ CallDeleteCategory(MainProc)
  \/ Step(MainProc)
  \/ Return(MainProc)

Spec == Init /\ [][Next]_vars


(***************************************************************************)
(* ConcSpec: two requests, one call each, interleaved at their awaited     *)
(* store calls, against a store that holds one vendor                      *)
(***************************************************************************)
SeedVendor == [id |-> "v1", name |-> <<"R">>, city |-> <<"P", "a">>]

ConcInit ==
  /\ categories = SeedCategories
  /\ vendors = {SeedVendor}
  /\ \E linked \in SUBSET CategoryIds :
       vendor_categories = {[vendor_id |-> SeedVendor.id, category_id |-> k] : k \in linked}
  /\ issued = {SeedVendor.id}
  /\ pc = [p \in Procs |-> "idle"]
  /\ call = [p \in Procs |-> NoCall]
  /\ ret = [p \in Procs |-> NoRet]
  /\ action = [p \in Procs |-> NoAction]
  /\ http = NoRequest
  /\ ui = MountedUi

ConcNext ==
  \E p \in Procs :
    \/ CallUpdateVendor(p, {SeedVendor.id}, {}, {}, SeqsUpTo(CategoryIds, MaxIds))
    \/ CallGetVendorById(p)
    \/ CallGetVendors(p, {}, {"cA"})
    \/ UvDelete(p) \/ UvInsert(p) \/ UvGet(p)
    \/ GbSelect(p)
    \/ GvLookup(p) \/ GvQuery(p)

ConcSpec == ConcInit /\ [][ConcNext]_vars

(***************************************************************************)
(* ListSpec: getVendors over stores whose cities range over every string   *)
(***************************************************************************)
OtherVendor == [id |-> "v2", name |-> <<"A", "l">>, city |-> <<"p">>]

ListInit ==
  /\ categories = SeedCategories
  /\ \E city \in SeqsUpTo(Alphabet, MaxCityLen) \ {<<>>} :
       vendors = {[id |-> "v1", name |-> <<"R">>, city |-> city], OtherVendor}
  /\ vendor_categories = {[vendor_id |-> "v1", category_id |-> "cA"],
                          [vendor_id |-> "v2", category_id |-> "cA"],
                          [vendor_id |-> "v2", category_id |-> "cB"]}
  /\ issued = {"v1", "v2"}
  /\ pc = [p \in Procs |-> "idle"]
  /\ call = [p \in Procs |-> NoCall]
  /\ ret = [p \in Procs |-> NoRet]
  /\ action = [p \in Procs |-> NoAction]
  /\ http = NoRequest
  /\ ui = MountedUi

ListNext ==
  \/ CallGetVendors(MainProc, SeqsUpTo(Alphabet, MaxFilterLen), CategoryIds)
  \/ GvLookup(MainProc)
  \/ GvQuery(MainProc)
  \/ Return(MainProc)

ListSpec == ListInit /\ [][ListNext]_vars

(***************************************************************************)
(* Server actions: validate the form, call the repository, wrap the        *)
(* outcome.  revalidatePath only drops cached pages and is left out.       *)
(***************************************************************************)
ErrorCode ==
  {"VALIDATION_ERROR", "DATABASE_ERROR", "NOT_FOUND", "UNAUTHORIZED", "FORBIDDEN",
   "CONFLICT", "AUTH_ERROR", "UNKNOWN"}

ERROR_MESSAGES ==
  [code \in ErrorCode |->
     CASE code = "VALIDATION_ERROR" -> "Invalid input data"
       [] code = "DATABASE_ERROR" -> "Database operation failed"
       [] code = "NOT_FOUND" -> "Resource not found"
       [] code = "UNAUTHORIZED" -> "Authentication required"
       [] code = "FORBIDDEN" -> "Access denied"
       [] code = "CONFLICT" -> "Resource already exists"
       [] code = "AUTH_ERROR" -> "Authentication failed"
       [] code = "UNKNOWN" -> "An unexpected error occurred"]

getErrorMessage(code) == ERROR_MESSAGES[code]

\* mutant: the caught error's own text is handed to the caller
handleError_Raw(error, code) == error.error

\* errors.ts 56-63: the caught error is logged, the code's message returned
handleError(error, code) == getErrorMessage(code)

\* a string of n characters
Text(n) == [i \in 1..n |-> "a"]

\* the issues of z.string().min(1, required).max(max, tooLong)
StringIssues(text, max, required, tooLong) ==
  IF Len(text) < 1 THEN <<required>>
  ELSE IF Len(text) > max THEN <<tooLong>>
  ELSE <<>>

\* mutant: every vendor form passes validation
vendorSchema_Accepts(name, city, categoryIds) == <<>>

\* vendorSchema.safeParse({name, city, categoryIds}): the issues, in the order
\* of the schema's keys; none when the parse succeeds
vendorSchema(name, city, categoryIds) ==
  StringIssues(name, NameMax, "Name is required", "Name is too long")
    \o StringIssues(city, CityMax, "City is required", "City is too long")
    \o (IF Len(categoryIds) < 1 THEN <<"Select at least one category">> ELSE <<>>)

\* categorySchema.safeParse({name})
categorySchema(name) ==
  StringIssues(name, CategoryNameMax, "Name is required", "Name is too long")

\* the form fields the actions are invoked with
FormNames == {<<>>, <<"R">>, Text(NameMax), Text(NameMax + 1)}
FormCities == {<<>>, <<"p">>, Text(CityMax + 1)}
FormCategoryIds == SeqsUpTo(CategoryIds, MaxFormIds)
FormCategoryNames == {<<>>, <<"A">>, <<"B">>, Text(CategoryNameMax + 1)}

\* return err(result.error.issues[0].message, ErrorCode.VALIDATION_ERROR): the
\* action returns before any repository function is entered
Reject(p, a, issues) ==
  /\ action' = [action EXCEPT ![p] = Settled(a, err(issues[1], "VALIDATION_ERROR"))]
  /\ UNCHANGED <<categories, vendors, vendor_categories, issued, pc, call, ret, http, ui>>

\* the try block awaits the repository function
Invoke(p, a, c, first) ==
  /\ action' = [action EXCEPT ![p] = a]
  /\ Enter(p, c, first)
  /\ UNCHANGED <<http, ui>>

Idle(p) == pc[p] = "idle" /\ action[p].stage = "none"

\* vendors/actions.ts 14-37
createVendorAction(p) ==
  \E name \in FormNames, city \in FormCities, categoryIds \in FormCategoryIds :
    LET issues == vendorSchema(name, city, categoryIds)
        a == NewAction("createVendorAction", "", name, city, categoryIds)
    IN
    /\ Idle(p)
    /\ IF issues # <<>>
         THEN Reject(p, a, issues)
         ELSE /\ ~(VendorIdPool \subseteq issued)
              /\ Invoke(p, a, NewCall("createVendor", "", <<name>>, <<city>>,
                                      <<categoryIds>>, <<>>, <<>>), "cv_insert")

\* vendors/actions.ts 39-63: name, city and categoryIds are always passed on
updateVendorAction(p) ==
  \E id \in VendorIdPool,
     name \in FormNames, city \in FormCities, categoryIds \in FormCategoryIds :
    LET issues == vendorSchema(name, city, categoryIds)
        a == NewAction("updateVendorAction", id, name, city, categoryIds)
    IN
    /\ Idle(p)
    /\ IF issues # <<>>
         THEN Reject(p, a, issues)
         ELSE Invoke(p, a, NewCall("updateVendor", id, <<name>>, <<city>>,
                                   <<categoryIds>>, <<>>, <<>>),
                     FirstOfUpdate(<<name>>, <<city>>, <<categoryIds>>))

\* vendors/actions.ts 65-75
deleteVendorAction(p) ==
  \E id \in VendorIdPool :
    /\ Idle(p)
    /\ Invoke(p, NewAction("deleteVendorAction", id, <<>>, <<>>, <<>>),
              NewCall("deleteVendor", id, <<>>, <<>>, <<>>, <<>>, <<>>), "dv_junction")

\* categories/actions.ts 14-31
createCategoryAction(p) ==
  \E name \in FormCategoryNames :
    LET issues == categorySchema(name)
        a == NewAction("createCategoryAction", "", name, <<>>, <<>>)
    IN
    /\ Idle(p)
    /\ IF issues # <<>>
         THEN Reject(p, a, issues)
         ELSE /\ ~(CategoryIdPool \subseteq issued)
              /\ Invoke(p, a, NewCall("createCategory", "", <<name>>, <<>>, <<>>, <<>>, <<>>),
                        "cc_insert")

\* categories/actions.ts 33-51
updateCategoryAction(p) ==
  \E id \in CategoryIds \cup CategoryIdPool, name \in FormCategoryNames :
    LET issues == categorySchema(name)
        a == NewAction("updateCategoryAction", id, name, <<>>, <<>>)
    IN
    /\ Idle(p)
    /\ IF issues # <<>>
         THEN Reject(p, a, issues)
         ELSE Invoke(p, a, NewCall("updateCategory", id, <<name>>, <<>>, <<>>, <<>>, <<>>),
                     "uc_update")

\* categories/actions.ts 53-63
deleteCategoryAction(p) ==
  \E id \in CategoryIds \cup CategoryIdPool :
    /\ Idle(p)
    /\ Invoke(p, NewAction("deleteCategoryAction", id, <<>>, <<>>, <<>>),
              NewCall("deleteCategory", id, <<>>, <<>>, <<>>, <<>>, <<>>), "dc_delete")

\* the awaited repository function has resolved or thrown: return ok(data), or
\* catch (error) { return err(handleError(error, DATABASE_ERROR), DATABASE_ERROR) }
Settle(p) ==
  /\ action[p].stage = "running"
  /\ pc[p] = "done"
  /\ action' = [action EXCEPT ![p] =
       Settled(@, IF ret[p].status = "ok"
                    THEN ok(ret[p].value)
                    ELSE err(handleError(ret[p], "DATABASE_ERROR"), "DATABASE_ERROR"))]
  /\ UNCHANGED <<categories, vendors, vendor_categories, issued, pc, call, ret, http, ui>>

\* the caller has taken the action's result
Forget(p) ==
  /\ action[p].stage = "settled"
  /\ action' = [action EXCEPT ![p] = NoAction]
  /\ pc' = [pc EXCEPT ![p] = "idle"]
  /\ call' = [call EXCEPT ![p] = NoCall]
  /\ ret' = [ret EXCEPT ![p] = NoRet]
  /\ UNCHANGED <<categories, vendors, vendor_categories, issued, http, ui>>

(***************************************************************************)
(* ActionSpec: one server action at a time against the seeded store        *)
(***************************************************************************)
ActionNext ==
  \/ createVendorAction(MainProc)
  \/ updateVendorAction(MainProc)
  \/ deleteVendorAction(MainProc)
  \/ createCategoryAction(MainProc)
  \/ updateCategoryAction(MainProc)
  \/ deleteCategoryAction(MainProc)
  \/ CvInsert(MainProc) \/ CvJunction(MainProc) \/ CvGet(MainProc)
  \/ UvUpdate(MainProc) \/ UvDelete(MainProc) \/ UvInsert(MainProc) \/ UvGet(MainProc)
  \/ DvJunction(MainProc) \/ DvVendor(MainProc)
  \/ CcInsert(MainProc) \/ UcUpdate(MainProc) \/ DcDelete(MainProc)
  \/ Settle(MainProc)
  \/ Forget(MainProc)

ActionSpec == Init /\ [][ActionNext]_vars

(***************************************************************************)
(* FetchSpec: the vendors page reads its listing through data.ts and the   *)
(* server wrapper of the repository, over the stores of ListSpec           *)
(***************************************************************************)
\* vendors.server.ts 12-15: getVendors() declares no parameter and calls
\* _getVendors(client), so the repository function is entered with filters
\* undefined and starts at its main query
getVendors(p, a) ==
  Invoke(p, a, NewCall("getVendors", "", <<>>, <<>>, <<>>, <<>>, <<>>), "gv_query")

\* (protected)/vendors/data.ts 8-10: return getVendors(filters).  The frame
\* keeps the filters fetchVendors was called with: city and categoryId.
fetchVendors(p) ==
  \E fcity \in Option(FilterCities), fcategoryId \in Option(CategoryIds) :
    /\ Idle(p)
    /\ getVendors(p, NewAction("fetchVendors", "", <<>>, fcity, fcategoryId))

\* the page has taken what fetchVendors resolved or rejected with
Fetched(p) ==
  /\ action[p].op = "fetchVendors"
  /\ pc[p] = "done"
  /\ action' = [action EXCEPT ![p] = NoAction]
  /\ pc' = [pc EXCEPT ![p] = "idle"]
  /\ call' = [call EXCEPT ![p] = NoCall]
  /\ ret' = [ret EXCEPT ![p] = NoRet]
  /\ UNCHANGED <<categories, vendors, vendor_categories, issued, http, ui>>

FetchNext ==
  \/ fetchVendors(MainProc)
  \/ GvQuery(MainProc)
  \/ Fetched(MainProc)

FetchSpec == ListInit /\ [][FetchNext]_vars

(***************************************************************************)
(* ProxySpec: page requests through proxy.ts.  Paths are strings; a        *)
(* request carries a session (user) or none, and the browser follows the   *)
(* redirects it is answered with.                                          *)
(***************************************************************************)
routes ==
  [home |-> "/",
   vendors |-> [list |-> "/vendors", new |-> "/vendors/new",
                edit |-> [id \in VendorIdPool |-> "/vendors/" \o id \o "/edit"]],
   categories |-> [list |-> "/categories"],
   auth |-> [login |-> "/login"]]

\* the pages of the app directory
Pages ==
  {routes.home, routes.vendors.list, routes.vendors.new, routes.categories.list,
   routes.auth.login} \cup {routes.vendors.edit[id] : id \in VendorIdPool}

\* the paths a browser asks for: the pages, paths that extend the login path,
\* a path of no page, and static assets
Paths ==
  Pages \cup {"/login/reset", "/loginx", "/nowhere", "/favicon.ico",
              "/_next/static/app.js", "/_next/image", "/logo.svg", "/vendors.png"}

\* String.prototype.startsWith
StartsWith(s, prefix) == Len(s) >= Len(prefix) /\ SubSeq(s, 1, Len(prefix)) = prefix

EndsWith(s, suffix) ==
  Len(s) >= Len(suffix) /\ SubSeq(s, Len(s) - Len(suffix) + 1, Len(s)) = suffix

publicPaths == {routes.auth.login}

\* mutant: no path is public
isPublicPath_None(pathname) == FALSE

\* mutant: every path is public
isPublicPath_Any(pathname) == TRUE

\* proxy.ts 7-9
isPublicPath(pathname) == \E path \in publicPaths : StartsWith(pathname, path)

\* "favicon.ico" inside the matcher's pattern: its dot stands for any character
FaviconPattern(rest) ==
  /\ Len(rest) >= Len("favicon.ico")
  /\ SubSeq(rest, 1, Len("favicon")) = "favicon"
  /\ SubSeq(rest, Len("favicon.") + 1, Len("favicon.ico")) = "ico"

\* config.matcher: the requests the proxy runs for, those whose path after the
\* leading slash neither starts with _next/static, _next/image or favicon.ico
\* nor ends with an image extension
matcher(pathname) ==
  LET rest == SubSeq(pathname, Len("/") + 1, Len(pathname)) IN
  /\ StartsWith(pathname, "/")
  /\ ~StartsWith(rest, "_next/static")
  /\ ~StartsWith(rest, "_next/image")
  /\ ~FaviconPattern(rest)
  /\ \A ext \in {".svg", ".png", ".jpg", ".jpeg", ".gif", ".webp"} : ~EndsWith(rest, ext)

\* what a page request leaves alone
backend == <<categories, vendors, vendor_categories, issued, pc, call, ret, action, ui>>

\* a browser, signed in or not, asks for a path
Request ==
  /\ http.stage = "none"
  /\ \E user \in BOOLEAN, pathname \in Paths :
       http' = [user |-> user, asked |-> pathname, pathname |-> pathname, hops |-> 0,
                stage |-> "sent", answer |-> "none", location |-> ""]
  /\ UNCHANGED backend

\* the matcher excludes the path: the request goes on without the proxy
Bypass ==
  /\ http.stage = "sent"
  /\ ~matcher(http.pathname)
  /\ http' = [http EXCEPT !.stage = "answered", !.answer = "next"]
  /\ UNCHANGED backend

\* proxy.ts 43-59
proxy ==
  /\ http.stage = "sent"
  /\ matcher(http.pathname)
  /\ http' =
       IF ~http.user /\ ~isPublicPath(http.pathname)
         THEN [http EXCEPT !.stage = "answered", !.answer = "redirect",
                           !.location = routes.auth.login]
       ELSE IF http.user /\ http.pathname = routes.auth.login
         THEN [http EXCEPT !.stage = "answered", !.answer = "redirect",
                           !.location = routes.vendors.list]
       ELSE [http EXCEPT !.stage = "answered", !.answer = "next"]
  /\ UNCHANGED backend

\* page.tsx 4-6: redirect(routes.vendors.list)
Home(r) == [r EXCEPT !.answer = "redirect", !.location = routes.vendors.list]

\* LoginForm.tsx 170-183: if (user) redirect(routes.vendors.list), else the
\* form is rendered
LoginPage(r) ==
  IF r.user
    THEN [r EXCEPT !.answer = "redirect", !.location = routes.vendors.list]
    ELSE [r EXCEPT !.stage = "served", !.answer = "page"]

\* the route of the path renders: Home, LoginPage, any other page is served,
\* a path of no page is not found
Render ==
  /\ http.stage = "answered"
  /\ http.answer = "next"
  /\ http' =
       IF http.pathname = routes.home THEN Home(http)
       ELSE IF http.pathname = routes.auth.login THEN LoginPage(http)
       ELSE IF http.pathname \in Pages
         THEN [http EXCEPT !.stage = "served", !.answer = "page"]
       ELSE [http EXCEPT !.stage = "served", !.answer = "not_found"]
  /\ UNCHANGED backend

\* the browser follows a redirect with the same session
Follow ==
  /\ http.stage = "answered"
  /\ http.answer = "redirect"
  /\ http.hops < MaxHops
  /\ http' = [http EXCEPT !.pathname = http.location, !.hops = http.hops + 1,
                          !.stage = "sent", !.answer = "none", !.location = ""]
  /\ UNCHANGED backend

\* the page request is over
Close ==
  /\ http.stage = "served"
  /\ http' = NoRequest
  /\ UNCHANGED backend

ProxyNext == Request \/ Bypass \/ proxy \/ Render \/ Follow \/ Close

ProxySpec == Init /\ [][ProxyNext]_vars

\* the server answers every request it is sent and the browser follows every
\* redirect it is answered with
ProxyLiveSpec == ProxySpec /\ WF_vars(Bypass \/ proxy \/ Render \/ Follow)

(***************************************************************************)
(* The vendor filters of the list page (useVendorFiltersModel) and the     *)
(* debounce hook they use (useDebouncedCallback).  Time is a clock that    *)
(* advances in ticks; a timer set by setTimeout is a record [id, due,      *)
(* args] the event loop runs once its due time is reached, before the      *)
(* clock moves on.  useQueryState is taken to apply a setter at once and   *)
(* to read an absent parameter as "".  The log records, for the            *)
(* properties, what was called and what ran the callback, in order.  The   *)
(* unmount cleanup is left out: the panel stays mounted.                   *)
(***************************************************************************)
Tick == delay \div 3
CityInputs == {"", "p", "pa"}      \* what the user types into the city field
CategoryInputs == {"", "cA"}       \* what the user picks in the category select

\* clearTimeout(id): a timer that has run or was cleared is not there
clearTimeout(timers, id) == {t \in timers : t.id # id}

\* part_003 27-29: (value) => { setUrlCity(value || null) }; args are the
\* arguments the callback is run with, none leaving value undefined
callback(u, args) ==
  [u EXCEPT !.urlCity = IF args = <<>> THEN "" ELSE args[1]]

\* use-debounced-value.ts 35-46: clear the timer of timeoutRef, set a new one
debouncedCallback(u, args) ==
  LET kept == IF u.timeoutRef # 0 THEN clearTimeout(u.timers, u.timeoutRef)
              ELSE u.timers
  IN [u EXCEPT !.timers = kept \cup {[id |-> u.nextId, due |-> u.now + delay,
                                      args |-> args]},
               !.timeoutRef = u.nextId,
               !.nextId = u.nextId + 1]

\* mutant: cancel leaves the timer set
cancel_Keep(u) == u

\* use-debounced-value.ts 48-53
cancel(u) ==
  IF u.timeoutRef # 0
    THEN [u EXCEPT !.timers = clearTimeout(u.timers, u.timeoutRef), !.timeoutRef = 0]
    ELSE u

\* use-debounced-value.ts 55-61: callbackRef.current() is called with no
\* argument
flush(u) ==
  IF u.timeoutRef # 0
    THEN callback([u EXCEPT !.timers = clearTimeout(u.timers, u.timeoutRef),
                            !.timeoutRef = 0], <<>>)
    ELSE u

\* mutant: the timer runs the callback without the arguments of the call
TimerArgs_None(t) == <<>>

\* use-debounced-value.ts 43-45: callbackRef.current(...args)
TimerArgs(t) == t.args

\* the log's entry of an event: its kind, the time, the timer it set or that
\* ran, the arguments of the call or of the callback's run, whether the
\* callback ran
Event(kind, u, id, args, ran) ==
  [kind |-> kind, at |-> u.now, id |-> id, args |-> args, ran |-> ran]

Logged(u, e) == [u EXCEPT !.log = Append(u.log, e)]

\* events other than the timer's are bounded in number
MayAct == Len(SelectSeq(ui.log, LAMBDA e : e.kind # "timer")) < MaxEvents

\* what every step of the filter panel leaves alone
server == <<categories, vendors, vendor_categories, issued, pc, call, ret, action, http>>

\* the debounced function is called with a value
Debounced ==
  /\ MayAct
  /\ \E value \in CityInputs :
       ui' = Logged(debouncedCallback(ui, <<value>>),
                    Event("call", ui, ui.nextId, <<value>>, FALSE))
  /\ UNCHANGED server

Cancel ==
  /\ MayAct
  /\ ui' = Logged(cancel(ui), Event("cancel", ui, ui.timeoutRef, <<>>, FALSE))
  /\ UNCHANGED server

Flush ==
  /\ MayAct
  /\ ui' = Logged(flush(ui), Event("flush", ui, ui.timeoutRef, <<>>, ui.timeoutRef # 0))
  /\ UNCHANGED server

\* the event loop runs a timer that is due: the function handed to setTimeout
\* runs the callback and leaves timeoutRef as it is
TimerFires ==
  /\ \E t \in ui.timers :
       /\ t.due <= ui.now
       /\ ui' = Logged(callback([ui EXCEPT !.timers = ui.timers \ {t}], TimerArgs(t)),
                       Event("timer", ui, t.id, TimerArgs(t), TRUE))
  /\ UNCHANGED server

\* time passes when no timer is due
Advance ==
  /\ ui.now < MaxTicks * Tick
  /\ \A t \in ui.timers : ui.now < t.due
  /\ ui' = [ui EXCEPT !.now = ui.now + Tick]
  /\ UNCHANGED server

\* part_003 31-37
handleCityChange ==
  /\ MayAct
  /\ \E value \in CityInputs :
       ui' = Logged(debouncedCallback([ui EXCEPT !.localCity = value], <<value>>),
                    Event("call", ui, ui.nextId, <<value>>, FALSE))
  /\ UNCHANGED server

\* part_003 39-44: setCategoryId(value || null)
handleCategoryChange ==
  /\ MayAct
  /\ \E value \in CategoryInputs :
       ui' = Logged([ui EXCEPT !.categoryId = value],
                    Event("category", ui, 0, <<value>>, FALSE))
  /\ UNCHANGED server

\* part_003 46-51: setLocalCity(""), debouncedSetUrlCity.cancel(),
\* setUrlCity(null), setCategoryId(null)
handleClearFilters ==
  /\ MayAct
  /\ ui' = Logged([cancel([ui EXCEPT !.localCity = ""])
                     EXCEPT !.urlCity = "", !.categoryId = ""],
                  Event("clear", ui, ui.timeoutRef, <<>>, FALSE))
  /\ UNCHANGED server

(***************************************************************************)
(* DebounceSpec: the debounced function, cancel and flush called in any    *)
(* order while time passes                                                 *)
(***************************************************************************)
DebounceNext == Debounced \/ Cancel \/ Flush \/ TimerFires \/ Advance

DebounceSpec == Init /\ [][DebounceNext]_vars

(***************************************************************************)
(* FilterSpec: the handlers of the filter panel called in any order while  *)
(* time passes                                                             *)
(***************************************************************************)
FilterNext ==
  \/ handleCityChange
  \/ handleCategoryChange
  \/ handleClearFilters
  \/ TimerFires
  \/ Advance

FilterSpec == Init /\ [][FilterNext]_vars

(***************************************************************************)
(* Properties of one request at a time (Spec)                              *)
(***************************************************************************)
TheCall == call[MainProc]
TheRet == ret[MainProc]
Done(op) == pc[MainProc] = "done" /\ TheCall.op = op
NoFault == TheRet.error # "fault"

Ids(rows) == {r.id : r \in rows}
PreCategories == TheCall.pre[1]
PreVendors == TheCall.pre[2]
PreJunction == TheCall.pre[3]
JunctionOf(vc, vendorId) == {r \in vc : r.vendor_id = vendorId}
LinkedIds(vc, vendorId) == {r.category_id : r \in JunctionOf(vc, vendorId)}
Distinct(s) == \A i, j \in DOMAIN s : s[i] = s[j] => i = j

\* every answer getVendorById gives for id in the current tables is a vendor
\* with this name, this city and exactly these categories
ReadsBack(id, name, city, cats) ==
  \A g \in GetVendorByIdResults(vendors, categories, vendor_categories, id, "") :
    /\ g.status = "ok"
    /\ g.value[1].name = name
    /\ g.value[1].city = city
    /\ Range(g.value[1].categories) = cats
    /\ Len(g.value[1].categories) = Cardinality(cats)

CreateRoundTrip ==
  /\ TheRet.status = "ok"
  /\ ReadsBack(TheRet.value[1].id, TheCall.name[1], TheCall.city[1],
               {c \in categories : c.id \in Range(TheCall.categoryIds[1])})

CreateOfExisting ==
  /\ Done("createVendor")
  /\ NoFault
  /\ TheCall.categoryIds[1] # <<>>
  /\ Range(TheCall.categoryIds[1]) \subseteq Ids(PreCategories)

\* C1 (as stated): for every name, city and non-empty sequence of ids of
\* existing categories, createVendor followed by getVendorById on the returned
\* id yields the input name and city and exactly the categories named.
C1_RoundTripAnySequence == CreateOfExisting => CreateRoundTrip

\* C1 (amended): the same for every non-empty sequence of pairwise distinct ids
\* of existing categories, in any order; a sequence that repeats an id is
\* refused by the junction table's primary key.
C1_RoundTripDistinctIds ==
  (CreateOfExisting /\ Distinct(TheCall.categoryIds[1])) => CreateRoundTrip

C1_Witness ==
  /\ Done("createVendor")
  /\ TheRet.status = "ok"
  /\ TheCall.categoryIds[1] = <<"cB", "cA">>
  /\ LinkedIds(vendor_categories, TheRet.value[1].id) = {"cA", "cB"}

\* C2: after updateVendor(id, {categoryIds: S}) succeeds, the vendor's
\* categories are exactly S: every category linked before and not in S is gone.
C2_FullReplace ==
  (Done("updateVendor") /\ TheCall.categoryIds # <<>> /\ TheRet.status = "ok") =>
    LET S == Range(TheCall.categoryIds[1]) IN
    /\ LinkedIds(vendor_categories, TheCall.id) = S
    /\ Ids(Range(TheRet.value[1].categories)) = S
    /\ \A k \in LinkedIds(PreJunction, TheCall.id) \ S :
         [vendor_id |-> TheCall.id, category_id |-> k] \notin vendor_categories

C2_Witness ==
  /\ Done("updateVendor")
  /\ TheRet.status = "ok"
  /\ LinkedIds(PreJunction, TheCall.id) = {"cA"}
  /\ TheCall.categoryIds = << <<"cB">> >>
  /\ Ids(Range(TheRet.value[1].categories)) = {"cB"}

\* C3: updateVendor without a categoryIds key never touches the junction table:
\* at every step of the call it is as it was, and the vendor returned has the
\* categories it had before, whichever of name and city are updated.
C3_OmittedLeavesJunction ==
  (TheCall.op = "updateVendor" /\ TheCall.categoryIds = <<>>) =>
    /\ vendor_categories = PreJunction
    /\ (pc[MainProc] = "done" /\ TheRet.status = "ok") =>
         Ids(Range(TheRet.value[1].categories)) = LinkedIds(PreJunction, TheCall.id)

C3_Witness ==
  /\ Done("updateVendor")
  /\ TheRet.status = "ok"
  /\ TheCall.categoryIds = <<>>
  /\ TheCall.name # <<>>
  /\ TheRet.value[1].name # (CHOOSE v \in PreVendors : v.id = TheCall.id).name
  /\ Ids(Range(TheRet.value[1].categories)) = {"cA", "cB"}

\* C4: updateVendor(id, {categoryIds: []}) on an existing vendor, when no store
\* call fails, succeeds; the vendor still exists, has no junction row and is
\* returned with no categories, and the rows of every other vendor are unchanged.
C4_EmptyClears ==
  (/\ Done("updateVendor")
   /\ TheCall.categoryIds = << <<>> >>
   /\ TheCall.id \in Ids(PreVendors)
   /\ NoFault) =>
    /\ TheRet.status = "ok"
    /\ TheCall.id \in Ids(vendors)
    /\ JunctionOf(vendor_categories, TheCall.id) = {}
    /\ TheRet.value[1].categories = <<>>
    /\ vendor_categories \ JunctionOf(vendor_categories, TheCall.id)
         = PreJunction \ JunctionOf(PreJunction, TheCall.id)

C4_Witness ==
  /\ Done("updateVendor")
  /\ TheCall.categoryIds = << <<>> >>
  /\ TheRet.status = "ok"
  /\ LinkedIds(PreJunction, TheCall.id) = {"cA", "cB"}
  /\ \E r \in vendor_categories : r.vendor_id # TheCall.id

JunctionInsertFailed ==
  /\ Done("createVendor")
  /\ TheRet.status = "threw"
  /\ TheRet.at = "cv_junction"

\* C7: when createVendor's junction insert fails after the vendor row was
\* inserted, nothing is rolled back: the call throws the store's error, and the
\* vendor row is in the table with none of its intended associations.
C7_NoRollback ==
  JunctionInsertFailed =>
    /\ TheRet.value = <<>>
    /\ [id |-> TheCall.vendorId, name |-> TheCall.name[1], city |-> TheCall.city[1]]
         \in vendors
    /\ TheCall.vendorId \notin Ids(PreVendors)
    /\ JunctionOf(vendor_categories, TheCall.vendorId) = {}

C7_Witness ==
  /\ JunctionInsertFailed
  /\ TheRet.error = "23503"
  /\ TheCall.vendorId \in Ids(vendors)

\* C8: after deleteVendor(id) succeeds no junction row references id,
\* getVendorById(id) fails for want of a row, and every category that existed
\* before the call still exists.
C8_VendorDeleteCascade ==
  (Done("deleteVendor") /\ TheRet.status = "ok") =>
    /\ JunctionOf(vendor_categories, TheCall.id) = {}
    /\ GetVendorByIdResults(vendors, categories, vendor_categories, TheCall.id, "")
         = {Threw("PGRST116", "")}
    /\ PreCategories \subseteq categories

C8_Witness ==
  /\ Done("deleteVendor")
  /\ TheRet.status = "ok"
  /\ LinkedIds(PreJunction, TheCall.id) = {"cA", "cB"}
  /\ TheCall.id \in Ids(PreVendors)

\* C9: after deleteCategory(id) succeeds no junction row references id, and
\* every vendor still exists with its name and city and reads back with the
\* categories it had, less the deleted one.
C9_CategoryDeleteCascade ==
  (Done("deleteCategory") /\ TheRet.status = "ok") =>
    /\ \A r \in vendor_categories : r.category_id # TheCall.id
    /\ vendors = PreVendors
    /\ \A v \in PreVendors :
         ReadsBack(v.id, v.name, v.city,
                   {c \in PreCategories :
                      c.id \in LinkedIds(PreJunction, v.id) \ {TheCall.id}})

C9_Witness ==
  /\ Done("deleteCategory")
  /\ TheRet.status = "ok"
  /\ TheCall.id = "cA"
  /\ \E v \in PreVendors : LinkedIds(PreJunction, v.id) = {"cA", "cB"}
  /\ \E v \in vendors : LinkedIds(vendor_categories, v.id) = {"cB"}

\* C12: listVendors({categoryId}) for a category no vendor is associated with
\* ends at the junction lookup: the step that performs the lookup is the call's
\* last, it returns the empty sequence unless the lookup itself failed, and the
\* main vendor query is never issued.
C12_EmptyLookupReturns ==
  [][(/\ pc[MainProc] = "gv_lookup"
      /\ VendorIdsWithCategory(vendor_categories, TheCall.fcategoryId[1]) = {}) =>
       /\ pc'[MainProc] = "done"
       /\ ret'[MainProc] \in {Returned(<<>>), Threw("fault", "gv_lookup")}
       /\ store' = store]_vars

C12_Witness ==
  /\ Done("getVendors")
  /\ TheCall.fcategoryId = <<"cB">>
  /\ TheRet = Returned(<<>>)
  /\ TheCall.ids = <<>>
  /\ "cB" \in Ids(categories)
  /\ vendors # {}
  /\ VendorIdsWithCategory(vendor_categories, "cB") = {}

\* a read of vendors has returned
ReadDone == (Done("getVendorById") \/ Done("getVendors")) /\ TheRet.status = "ok"

SortedByName(s) == \A i, j \in DOMAIN s : i < j => NameLeq(s[i].name, s[j].name)

\* the sequence holds exactly the categories the vendor is linked to, each once
ExactlyLinked(v) ==
  /\ Range(v.categories) \subseteq categories
  /\ Ids(Range(v.categories)) = LinkedIds(vendor_categories, v.id)
  /\ Distinct(v.categories)

\* C13 (as stated): for every vendor returned by getVendorById or listVendors,
\* the categories sequence is ordered by category name ascending and contains
\* exactly the categories currently linked to that vendor.
C13_CategoriesOrderedAndExact ==
  ReadDone =>
    \A i \in DOMAIN TheRet.value :
      SortedByName(TheRet.value[i].categories) /\ ExactlyLinked(TheRet.value[i])

\* C13 (amended): for every vendor returned by getVendorById or listVendors,
\* the categories sequence contains exactly the categories currently linked to
\* that vendor, each once; its order is not fixed.
C13_CategoriesExact ==
  ReadDone => \A i \in DOMAIN TheRet.value : ExactlyLinked(TheRet.value[i])

C13_Witness ==
  /\ Done("getVendors")
  /\ TheRet.status = "ok"
  /\ \E i \in DOMAIN TheRet.value : TheRet.value[i].categories = <<CatB, CatA>>
  /\ \E i \in DOMAIN TheRet.value : TheRet.value[i].categories = <<CatA>>

\* listVendors() and listCategories(): a listing without filters has returned
ListedVendors ==
  /\ Done("getVendors")
  /\ TheRet.status = "ok"
  /\ TheCall.fcity = <<>> /\ TheCall.fcategoryId = <<>>

ListedCategories == Done("getCategories") /\ TheRet.status = "ok"

\* what a second listVendors() can return while the tables are as they are
AgainVendors == VendorListings(vendors, categories, vendor_categories, <<>>, <<>>)

\* a vendor of a listing, its categories taken as a set
AsSet(v) == [id |-> v.id, name |-> v.name, city |-> v.city, categories |-> Range(v.categories)]

\* the same vendors with the same categories, names in the same positions
SameUpToTies(l, m) ==
  /\ Len(l) = Len(m)
  /\ \A i \in DOMAIN l : l[i].name = m[i].name
  /\ {AsSet(l[i]) : i \in DOMAIN l} = {AsSet(m[i]) : i \in DOMAIN m}

\* C14 (as stated): listVendors() and listCategories() each return their rows
\* sorted by name ascending, and a repeated call with unchanged data returns
\* the same sequence in the same order.
C14_ListingRepeatsExactly ==
  /\ ListedVendors =>
       SortedByName(TheRet.value) /\ \A l \in AgainVendors : l = TheRet.value
  /\ ListedCategories =>
       SortedByName(TheRet.value) /\ \A l \in CategoryListings(categories) : l = TheRet.value

\* C14 (amended): both listings are sorted by name ascending; with unchanged
\* data a repeated listCategories() returns the same sequence, and a repeated
\* listVendors() returns the same vendors with the same categories, in the same
\* order except among vendors of equal name and within a categories sequence.
C14_ListingRepeatsUpToTies ==
  /\ ListedVendors =>
       SortedByName(TheRet.value) /\ \A l \in AgainVendors : SameUpToTies(l, TheRet.value)
  /\ ListedCategories =>
       SortedByName(TheRet.value) /\ \A l \in CategoryListings(categories) : l = TheRet.value

\* two vendors of equal name were listed, and a repeated call may swap them
C14_Witness ==
  /\ ListedVendors
  /\ Len(TheRet.value) = Cardinality(VendorIdPool)
  /\ TheRet.value[1].name = TheRet.value[2].name
  /\ \E l \in AgainVendors : l[1].id = TheRet.value[2].id

DeleteOfMissing ==
  \/ Done("deleteVendor") /\ TheCall.id \notin Ids(PreVendors)
  \/ Done("deleteCategory") /\ TheCall.id \notin Ids(PreCategories)

\* C19: deleteVendor and deleteCategory follow one policy for an id that
\* matches no row: unless a store call fails, each completes successfully as a
\* no-op, and in every case the tables are left as they were.
C19_DeleteOfMissingIsNoOp ==
  DeleteOfMissing =>
    /\ NoFault => TheRet = Returned(<<>>)
    /\ store = TheCall.pre

\* a category deleted earlier is deleted again, with vendors, categories and
\* junction rows in the tables and a vendor already deleted
C19_Witness ==
  /\ Done("deleteCategory")
  /\ TheCall.id \notin Ids(PreCategories)
  /\ TheRet = Returned(<<>>)
  /\ vendors # {} /\ categories # {} /\ vendor_categories # {}
  /\ issued \ Ids(vendors) # {}

\* C22: deleteVendor(id) deletes the junction rows of id before the vendor
\* row: once the call is past its first store call no junction row of id is
\* left, if the junction delete fails the vendor row is not deleted, and at
\* every step of the call a missing vendor row implies no junction row of id.
C22_JunctionBeforeVendor ==
  TheCall.op = "deleteVendor" =>
    /\ pc[MainProc] = "dv_vendor" => JunctionOf(vendor_categories, TheCall.id) = {}
    /\ (pc[MainProc] = "dv_junction" \/ TheRet.at = "dv_junction") => store = TheCall.pre
    /\ TheCall.id \notin Ids(vendors) => JunctionOf(vendor_categories, TheCall.id) = {}

\* the junction rows are gone while the vendor row is still there
C22_Witness ==
  /\ TheCall.op = "deleteVendor"
  /\ pc[MainProc] = "dv_vendor"
  /\ TheCall.id \in Ids(vendors)
  /\ LinkedIds(PreJunction, TheCall.id) = {"cA", "cB"}
  /\ JunctionOf(vendor_categories, TheCall.id) = {}

InsertAfterDeleteFailed ==
  /\ Done("updateVendor")
  /\ TheRet.status = "threw"
  /\ TheRet.at = "uv_insert"

\* the row of the call's vendor as the call's name and city leave it
RowAfterUpdate(v) ==
  [id |-> v.id,
   name |-> IF TheCall.name # <<>> THEN TheCall.name[1] ELSE v.name,
   city |-> IF TheCall.city # <<>> THEN TheCall.city[1] ELSE v.city]

\* C23: when updateVendor(id, {categoryIds}) has deleted the vendor's junction
\* rows and the bulk insert that follows fails, the call throws the store's
\* error, the vendor has no junction row, its name and city are as the call
\* set them, and the previous associations are not restored.
C23_FailedInsertLeavesNone ==
  InsertAfterDeleteFailed =>
    /\ TheRet.value = <<>>
    /\ JunctionOf(vendor_categories, TheCall.id) = {}
    /\ \A v \in PreVendors : v.id = TheCall.id => RowAfterUpdate(v) \in vendors
    /\ Ids(vendors) = Ids(PreVendors)

C23_Witness ==
  /\ InsertAfterDeleteFailed
  /\ TheRet.error = "23505"
  /\ LinkedIds(PreJunction, TheCall.id) = {"cA", "cB"}
  /\ TheCall.name # <<>>
  /\ \E v \in PreVendors : v.id = TheCall.id /\ v.name # TheCall.name[1]
  /\ JunctionOf(vendor_categories, TheCall.id) = {}

(***************************************************************************)
(* Properties of two interleaved requests (ConcSpec)                       *)
(***************************************************************************)
UpdatesCategories(p, id) ==
  /\ call[p].op = "updateVendor"
  /\ call[p].id = id
  /\ call[p].categoryIds # <<>>

\* C5: when two updateVendor calls on the same vendor with different
\* categoryIds both complete, the vendor's category set is that of one of the
\* two calls, not a mixture of the two sets.
C5_LastWriteWins ==
  \A p, q \in Procs :
    (/\ p # q
     /\ UpdatesCategories(p, SeedVendor.id) /\ UpdatesCategories(q, SeedVendor.id)
     /\ Range(call[p].categoryIds[1]) # Range(call[q].categoryIds[1])
     /\ pc[p] = "done" /\ pc[q] = "done"
     /\ ret[p].status = "ok" /\ ret[q].status = "ok") =>
      LinkedIds(vendor_categories, SeedVendor.id)
        \in {Range(call[p].categoryIds[1]), Range(call[q].categoryIds[1])}

\* C24: every vendor returned by getVendors with filters.categoryId = C has C
\* among its populated categories, also when calls of other requests run
\* between the junction lookup and the main vendor query.
C24_ListedVendorsHaveCategory ==
  \A p \in Procs :
    (/\ call[p].op = "getVendors"
     /\ call[p].fcategoryId # <<>>
     /\ pc[p] = "done"
     /\ ret[p].status = "ok") =>
      \A i \in DOMAIN ret[p].value :
        call[p].fcategoryId[1] \in Ids(Range(ret[p].value[i].categories))

\* between its junction delete and its junction insert
InWindow(p) == pc[p] = "uv_insert"

\* C6: while an updateVendor call that supplies categoryIds is between its
\* junction delete and its junction insert, and no other call writes the
\* vendor's associations, the vendor has no junction row: every getVendorById
\* and every listing taken then shows it with an empty categories sequence.
C6_WindowReadsEmpty ==
  \A p \in Procs :
    (/\ InWindow(p)
     /\ \A q \in Procs \ {p} : ~UpdatesCategories(q, call[p].id)) =>
      /\ \A g \in GetVendorByIdResults(vendors, categories, vendor_categories,
                                       call[p].id, "") :
           g.status = "ok" => g.value[1].categories = <<>>
      /\ \A l \in VendorListings(vendors, categories, vendor_categories, <<>>, <<>>) :
           \A i \in DOMAIN l : l[i].id = call[p].id => l[i].categories = <<>>

\* a reader was answered with zero categories inside the window, though the
\* old and the new category set are both non-empty
C6_Witness ==
  \E p, q \in Procs :
    /\ InWindow(p)
    /\ LinkedIds(call[p].pre[3], call[p].id) # {}
    /\ call[p].categoryIds[1] # <<>>
    /\ call[q].op = "getVendorById"
    /\ call[q].id = call[p].id
    /\ pc[q] = "done"
    /\ ret[q].status = "ok"
    /\ ret[q].value[1].categories = <<>>

(***************************************************************************)
(* Properties of the city filter (ListSpec)                                *)
(***************************************************************************)
\* s occurs in city as a contiguous run, letter case ignored
ContainsIgnoringCase(city, s) ==
  \E k \in 0..(Len(city) - Len(s)) :
    \A j \in 1..Len(s) : Lower(city[k + j]) = Lower(s[j])

\* C10: for every non-empty filter string s, listVendors({city: s}) returns
\* exactly the vendors whose city contains s, compared case-insensitively.
C10_CityFilterIsSubstring ==
  (/\ Done("getVendors")
   /\ TheRet.status = "ok"
   /\ TheCall.fcategoryId = <<>>
   /\ TheCall.fcity # <<>>
   /\ TheCall.fcity[1] # <<>>) =>
    {v.id : v \in Range(TheRet.value)}
      = {v.id : v \in {w \in vendors : ContainsIgnoringCase(w.city, TheCall.fcity[1])}}

BothFilters ==
  /\ Done("getVendors")
  /\ TheRet.status = "ok"
  /\ TheCall.fcity # <<>> /\ TheCall.fcity[1] # <<>>
  /\ TheCall.fcategoryId # <<>>

\* the vendors listVendors({city}) alone selects, and those of listVendors({categoryId})
MatchesCity == Ids({v \in vendors : IlikeCity(v, TheCall.fcity[1])})
MatchesCategory == VendorIdsWithCategory(vendor_categories, TheCall.fcategoryId[1])

\* C11: listVendors({city, categoryId}) with both filters supplied returns
\* exactly the vendors that the city filter selects and that are associated with
\* the category; a vendor that only one of the two filters selects is excluded.
C11_FiltersAreAnded ==
  BothFilters =>
    /\ Ids(Range(TheRet.value)) = MatchesCity \cap MatchesCategory
    /\ Len(TheRet.value) = Cardinality(MatchesCity \cap MatchesCategory)

\* one vendor passes the city filter alone, the other the category filter
\* alone, and neither is returned
C11_Witness ==
  /\ BothFilters
  /\ TheRet.value = <<>>
  /\ MatchesCity \ MatchesCategory # {}
  /\ MatchesCategory \ MatchesCity # {}

(***************************************************************************)
(* Properties of server actions (ActionSpec)                               *)
(***************************************************************************)
TheAction == action[MainProc]
Settles(op) == TheAction.stage = "settled" /\ TheAction.op = op
StoreAsBefore == store = TheAction.pre

\* C15: createCategory(name) with the name of an existing category fails with
\* the Conflict error kind, and no category row is added or changed.
C15_DuplicateNameIsConflict ==
  (/\ Settles("createCategoryAction")
   /\ \E c \in TheAction.pre[1] : c.name = TheAction.name
   /\ NoFault) =>
    /\ ~TheAction.result.success
    /\ TheAction.result.code = "CONFLICT"
    /\ categories = TheAction.pre[1]

\* C16: updateVendor(id, input) on an id that matches no vendor row fails with
\* NotFound (the action's NOT_FOUND code, or at least the store's no-row error
\* PGRST116 underneath it), and no row of any table is created, changed or
\* deleted.
C16_MissingVendorIsNotFound ==
  (/\ Settles("updateVendorAction")
   /\ TheCall.op = "updateVendor"
   /\ TheAction.id \notin Ids(TheAction.pre[2])
   /\ NoFault) =>
    /\ ~TheAction.result.success
    /\ TheAction.result.code = "NOT_FOUND" \/ TheRet.error = "PGRST116"
    /\ StoreAsBefore

\* a vendor form the claim calls invalid
InvalidVendorForm(a) ==
  \/ a.name = <<>> \/ Len(a.name) > NameMax
  \/ a.city = <<>> \/ Len(a.city) > CityMax
  \/ a.categoryIds = <<>>

\* C17: createVendorAction and updateVendorAction given a name or city that is
\* empty or longer than 100 characters, or an empty categoryIds list, return a
\* VALIDATION_ERROR result and never enter a repository function: no store
\* call is made and the tables are as they were.
C17_InvalidFormNoStoreCall ==
  (/\ TheAction.op \in {"createVendorAction", "updateVendorAction"}
   /\ InvalidVendorForm(TheAction)) =>
    /\ TheAction.stage = "settled"
    /\ ~TheAction.result.success
    /\ TheAction.result.code = "VALIDATION_ERROR"
    /\ pc[MainProc] = "idle" /\ TheCall = NoCall /\ TheRet = NoRet
    /\ StoreAsBefore

C17_Witness ==
  /\ Settles("updateVendorAction")
  /\ Len(TheAction.name) = NameMax + 1
  /\ TheAction.city = <<"p">>
  /\ TheAction.categoryIds # <<>>
  /\ TheAction.id \in Ids(vendors)
  /\ TheAction.result = err("Name is too long", "VALIDATION_ERROR")

\* C18: whenever a store call fails inside a vendor or category action, the
\* action returns a failure whose error text is the fixed message of its error
\* code, the same for every store error: nothing of the store's error reaches
\* the caller.
C18_StoreErrorsAreMasked ==
  (TheAction.stage = "settled" /\ TheRet.status = "threw") =>
    /\ ~TheAction.result.success
    /\ TheAction.result.data = <<>>
    /\ TheAction.result.code = "DATABASE_ERROR"
    /\ TheAction.result.error = "Database operation failed"

C18_Witness ==
  /\ Settles("updateCategoryAction")
  /\ TheRet.error = "23505"
  /\ TheAction.result.error = "Database operation failed"

AllHaveCategory(vs, vc) == \A v \in vs : JunctionOf(vc, v.id) # {}

\* C25: in every state reached through the six server actions alone, one at
\* a time and without store faults, every existing vendor has at least one
\* associated category: an action that starts from such a state and meets
\* no store fault settles in such a state.
C25_EveryVendorHasCategory ==
  (/\ TheAction.stage = "settled"
   /\ NoFault
   /\ AllHaveCategory(TheAction.pre[2], TheAction.pre[3])) =>
    AllHaveCategory(vendors, vendor_categories)

(***************************************************************************)
(* Properties of the vendors page's data function (FetchSpec)              *)
(***************************************************************************)
\* what repository getVendors(client, {city, categoryId}) can return on the
\* tables as they are
RepositoryListings(fcity, fcategoryId) ==
  IF fcategoryId # <<>> /\ fcategoryId[1] # ""
    THEN LET found == {r.vendor_id : r \in {x \in vendor_categories :
                                              x.category_id = fcategoryId[1]}} IN
         IF found = {} THEN {<<>>}
         ELSE VendorListings(vendors, categories, vendor_categories, <<found>>, fcity)
    ELSE VendorListings(vendors, categories, vendor_categories, <<>>, fcity)

\* C26: fetchVendors(filters) returns what repository getVendors(client,
\* filters) returns on the same tables: the filters reach the store query
\* through the server wrapper.
C26_FetchPassesFilters ==
  (/\ TheAction.op = "fetchVendors"
   /\ pc[MainProc] = "done"
   /\ TheRet.status = "ok") =>
    TheRet.value \in RepositoryListings(TheAction.city, TheAction.categoryIds)

(***************************************************************************)
(* Properties of page requests (ProxySpec)                                 *)
(***************************************************************************)
\* the request has been answered by the proxy, or passed on without it
Answered == http.stage \in {"answered", "served"}

RedirectedToLogin == http.answer = "redirect" /\ http.location = routes.auth.login

\* C20 (as stated): every request that carries no authenticated user and whose
\* path is not the public login path is answered with a redirect to the login
\* route, never with the requested page.
C20_UnauthenticatedAlwaysRedirected ==
  (Answered /\ ~http.user /\ http.pathname # routes.auth.login) => RedirectedToLogin

\* C20 (amended): every request that carries no authenticated user, that the
\* matcher passes to the proxy and whose path does not begin with the login
\* path is answered with a redirect to the login route; the only page ever
\* served to such a user is the login page.
C20_UnauthenticatedRedirected ==
  /\ (/\ Answered /\ ~http.user
      /\ matcher(http.pathname)
      /\ ~StartsWith(http.pathname, routes.auth.login)) => RedirectedToLogin
  /\ (~http.user /\ http.answer = "page") => http.pathname = routes.auth.login

\* a visitor without a session asked for the vendors list and was taken to
\* the login page
C20_Witness ==
  /\ ~http.user
  /\ http.asked = routes.vendors.list
  /\ http.hops > 0
  /\ http.pathname = routes.auth.login
  /\ http.answer = "page"

\* C30: for every request path and every authentication state that stays
\* unchanged, following the redirects issued by proxy, the Home page and the
\* login page reaches a response that is no redirect after a bounded number
\* of steps: every request sent is eventually served.
C30_RedirectsEnd == (http.stage = "sent") ~> (http.stage = "served")

\* requests that were redirected and then served, signed in and not
C30_Witness ==
  /\ http.stage = "served"
  /\ http.hops = 1
  /\ http.asked \in {routes.home, routes.auth.login}

(***************************************************************************)
(* Properties of the debounce hook (DebounceSpec)                          *)
(***************************************************************************)
TheLog == ui.log
Calls == {i \in DOMAIN TheLog : TheLog[i].kind = "call"}
TimerRuns == {j \in DOMAIN TheLog : TheLog[j].kind = "timer"}

\* the first event after i that is no timer's, or the end of the log
NextAct(i) ==
  LET later == {j \in DOMAIN TheLog : j > i /\ TheLog[j].kind # "timer"} IN
  IF later = {} THEN Len(TheLog) + 1
  ELSE CHOOSE j \in later : \A k \in later : j <= k

\* the first call after i, or the end of the log
NextCall(i) ==
  LET later == {j \in Calls : j > i} IN
  IF later = {} THEN Len(TheLog) + 1
  ELSE CHOOSE j \in later : \A k \in later : j <= k

\* the timer runs of call i: those before anything else is called
RunsOf(i) == {j \in TimerRuns : i < j /\ j < NextAct(i)}

\* the timer call i has set is waiting with the call's arguments
Pending(i) ==
  \E t \in ui.timers :
    /\ t.id = TheLog[i].id
    /\ t.due = TheLog[i].at + delay
    /\ t.args = TheLog[i].args

\* C21: the timer runs the callback only once the delay has passed since the
\* last call, with that call's arguments and at most once; a call followed
\* by another within the delay is not run; the last call of a burst is run
\* exactly once: its timer is waiting until the delay has passed and has run
\* the callback by the time anything happens later than that.
C21_RunsOnceAfterLastCall ==
  /\ \A j \in TimerRuns : \E i \in Calls : j \in RunsOf(i)
  /\ \A i \in Calls :
       /\ \A j \in RunsOf(i) :
            /\ TheLog[j].at >= TheLog[i].at + delay
            /\ TheLog[j].args = TheLog[i].args
       /\ Cardinality(RunsOf(i)) <= 1
       /\ (/\ NextAct(i) <= Len(TheLog)
           /\ TheLog[NextAct(i)].at < TheLog[i].at + delay) => RunsOf(i) = {}
       /\ (/\ NextAct(i) <= Len(TheLog)
           /\ TheLog[NextAct(i)].at > TheLog[i].at + delay) => RunsOf(i) # {}
       /\ NextAct(i) > Len(TheLog) =>
            IF RunsOf(i) = {}
              THEN Pending(i) /\ ui.now <= TheLog[i].at + delay
              ELSE ui.timers = {}

\* three calls a tick apart, then one run with the arguments of the third
C21_Witness ==
  /\ Len(TheLog) = 4
  /\ \A i \in 1..3 : TheLog[i].kind = "call" /\ TheLog[i].at = (i - 1) * Tick
  /\ TheLog[1].args # TheLog[3].args
  /\ TheLog[2].args # TheLog[3].args
  /\ TheLog[4].kind = "timer"
  /\ TheLog[4].args = TheLog[3].args

\* the last event is a flush called while the timer of call i was waiting
FlushOfPending(i) ==
  /\ TheLog # <<>>
  /\ TheLog[Len(TheLog)].kind = "flush"
  /\ i \in Calls
  /\ NextAct(i) = Len(TheLog)
  /\ RunsOf(i) = {}

\* C27: flush() on a debounced callback with a pending invocation cancels
\* the timer and runs the callback at once with the arguments of that
\* invocation: the URL's city is the value of the pending call.
C27_FlushRunsPendingArgs ==
  \A i \in DOMAIN TheLog :
    FlushOfPending(i) =>
      /\ ui.timers = {}
      /\ TheLog[Len(TheLog)].ran
      /\ ui.urlCity = TheLog[i].args[1]

\* the events between call i and the next call that ran the callback
Executions(i) == {j \in DOMAIN TheLog : i < j /\ j < NextCall(i) /\ TheLog[j].ran}

\* C28: each invocation leads to at most one execution of the callback:
\* flush() and cancel() act only while an invocation is pending, so flush()
\* after the timer has fired does not run the callback again.
C28_AtMostOneExecution ==
  \A i \in Calls : Cardinality(Executions(i)) <= 1

(***************************************************************************)
(* Properties of the filter panel (FilterSpec)                             *)
(***************************************************************************)
Clears == {k \in DOMAIN TheLog : TheLog[k].kind = "clear"}

\* C29: after handleClearFilters the local city is empty and the URL's city
\* and categoryId are cleared, and no debounced city update that
\* handleCityChange scheduled before the clear is applied to the URL
\* afterwards: until another handler is called no timer runs and the filters
\* stay cleared, and a timer that runs later was set by a later call.
C29_ClearCancelsPending ==
  \A k \in Clears :
    /\ NextAct(k) > Len(TheLog) =>
         /\ k = Len(TheLog)
         /\ ui.localCity = ""
         /\ ui.urlCity = ""
         /\ ui.categoryId = ""
    /\ \A j \in TimerRuns :
         j > k => \E i \in Calls : k < i /\ i < j /\ TheLog[i].id = TheLog[j].id

\* a city was typed, the filters were cleared before the delay had passed,
\* and the time the update was due at has gone by
C29_Witness ==
  /\ Len(TheLog) >= 2
  /\ TheLog[Len(TheLog)].kind = "clear"
  /\ TheLog[Len(TheLog) - 1].kind = "call"
  /\ TheLog[Len(TheLog) - 1].args = <<"p">>
  /\ TheLog[Len(TheLog)].at < TheLog[Len(TheLog) - 1].at + delay
  /\ ui.now > TheLog[Len(TheLog) - 1].at + delay
  /\ ui.urlCity = ""

====
